---- MODULE Spec2Model ----
(***************************************************************************)
(* PiClaw setup wizard (setup-wizard/app.py): the onboarding controller as *)
(* a state machine.  One action per HTTP handler; the files the handlers   *)
(* touch (config.json, the two marker files), the in-process device name   *)
(* and the last request/response are the state.  External tools           *)
(* (systemctl, ip, the WiFi helper script, the provider's HTTPS API) are   *)
(* inputs of the request that calls them.                                   *)
(***************************************************************************)
EXTENDS Integers, Sequences, FiniteSets, TLC

VARIABLES
    TESTING,        \* app.config["TESTING"], fixed at process start
    marker,         \* SETUP_COMPLETE_MARKER.exists()
    wifiMarker,     \* WIFI_CONFIGURED_MARKER.exists()
    configFile,     \* CONFIG_FILE: [exists, parses, mode, doc]
    dirs,           \* PICOCLAW_HOME and WORKSPACE_DIR exist
    device_name,    \* app.config["device_name"]: [set, value]
    req,            \* the last request and what its external calls met
    resp,           \* the response the handler returned (or the exception)
    calls,          \* external calls the last request made, in order
    committed,      \* history of the commits: [keys, last, cut]
    initialFile,    \* history: CONFIG_FILE as the process found it
    nreq,           \* number of requests served so far
    threads         \* POST /setup/3 requests in flight: position and locals

vars == <<TESTING, marker, wifiMarker, configFile, dirs, device_name, req, resp,
          calls, committed, initialFile, nreq, threads>>

\* Length of the modelled session, in requests.
MaxRequests == 2

----------------------------------------------------------------------------
\* Strings that the code trims are sequences of characters.

IsSpace(c) == c = " "

RECURSIVE LStrip(_)
LStrip(s) == IF s # <<>> /\ IsSpace(Head(s)) THEN LStrip(Tail(s)) ELSE s

RECURSIVE RStrip(_)
RStrip(s) ==
    IF s # <<>> /\ IsSpace(s[Len(s)]) THEN RStrip(SubSeq(s, 1, Len(s) - 1)) ELSE s

\* str.strip()
Strip(s) == RStrip(LStrip(s))

\* request.form.get("provider") of a form without the field
NoneProvider == "<None>"

----------------------------------------------------------------------------
\* SUPPORTED_PROVIDERS

ProviderKeys == {"anthropic", "openai", "gemini", "groq"}

NoField == "<absent>"

SUPPORTED_PROVIDERS ==
    [p \in ProviderKeys |->
        CASE p = "anthropic" ->
               [name |-> "Anthropic (Claude)", config_key |-> "anthropic",
                default_model |-> "claude-sonnet-4-5",
                validate_url |-> "https://api.anthropic.com/v1/messages",
                validate_header |-> "x-api-key", validate_prefix |-> NoField,
                validate_query |-> NoField]
          [] p = "openai" ->
               [name |-> "OpenAI (GPT)", config_key |-> "openai",
                default_model |-> "gpt-4o",
                validate_url |-> "https://api.openai.com/v1/models",
                validate_header |-> "Authorization", validate_prefix |-> "Bearer ",
                validate_query |-> NoField]
          [] p = "gemini" ->
               [name |-> "Google (Gemini)", config_key |-> "gemini",
                default_model |-> "gemini-2.5-flash",
                validate_url |-> "https://generativelanguage.googleapis.com/v1beta/models",
                validate_header |-> NoField, validate_prefix |-> NoField,
                validate_query |-> "key"]
          [] p = "groq" ->
               [name |-> "Groq", config_key |-> "groq",
                default_model |-> "llama-3.3-70b",
                validate_url |-> "https://api.groq.com/openai/v1/models",
                validate_header |-> "Authorization", validate_prefix |-> "Bearer ",
                validate_query |-> NoField]]

\* SUPPORTED_PROVIDERS.get(provider_key) is not None
Recognized(p) == p \in ProviderKeys

----------------------------------------------------------------------------
\* Messages: a format and what is substituted into it.

Msg(fmt, code, exc) == [fmt |-> fmt, code |-> code, exc |-> exc]
NoMsg == Msg("<None>", 0, "")
PlainMsg(fmt) == Msg(fmt, 0, "")

\* What urllib.request.urlopen(req, timeout=5) can do.
\*   "response"  it returned (the status is 2xx)
\*   "HTTPError" it raised urllib.error.HTTPError with .code
\*   "URLError"  it raised urllib.error.URLError (DNS, connect, connect timeout)
\*   "Exception" it raised anything else (a read timeout raises TimeoutError)
HttpCodes2xx == {200}
HttpErrorCodes == {401, 403, 429, 500}
ExcTexts == {"timed out"}
NoHttp == [t |-> "not_called", code |-> 0, text |-> ""]
HttpOutcomes ==
    {[t |-> "response", code |-> c, text |-> ""] : c \in HttpCodes2xx}
    \cup {[t |-> "HTTPError", code |-> c, text |-> ""] : c \in HttpErrorCodes}
    \cup {[t |-> "URLError", code |-> 0, text |-> ""]}
    \cup {[t |-> "Exception", code |-> 0, text |-> x] : x \in ExcTexts}

\* The request validate_api_key builds: where the secret travels.
ValidationRequest(provider, api_key) ==
    [url |-> provider.validate_url,
     query |-> IF provider.validate_query # NoField
               THEN <<provider.validate_query, api_key>> ELSE <<>>,
     auth_header |-> IF provider.validate_header # NoField
                     THEN <<provider.validate_header,
                            IF provider.validate_prefix # NoField
                            THEN provider.validate_prefix ELSE "",
                            api_key>>
                     ELSE <<>>]

\* Mutant: HTTP 429 is classified with the other error codes.
ClassifyHttp_429Invalid(o) ==
    CASE o.t = "response" -> [valid |-> TRUE, error |-> NoMsg]
      [] o.t = "HTTPError" ->
           IF o.code = 401
           THEN [valid |-> FALSE,
                 error |-> PlainMsg("Invalid API key. Please check and try again.")]
           ELSE IF o.code = 403
           THEN [valid |-> FALSE,
                 error |-> PlainMsg("API key doesn't have permission. Check your account.")]
           ELSE [valid |-> FALSE,
                 error |-> Msg("Provider returned error {code}. Try again.", o.code, "")]
      [] o.t = "URLError" ->
           [valid |-> FALSE,
            error |-> PlainMsg("Can't reach the provider. Check your internet connection.")]
      [] OTHER ->
           [valid |-> FALSE, error |-> Msg("Validation failed: {exc}", 0, o.text)]

\* The except clauses of validate_api_key, in their order.
ClassifyHttp(o) ==
    CASE o.t = "response" -> [valid |-> TRUE, error |-> NoMsg]
      [] o.t = "HTTPError" ->
           IF o.code = 401
           THEN [valid |-> FALSE,
                 error |-> PlainMsg("Invalid API key. Please check and try again.")]
           ELSE IF o.code = 403
           THEN [valid |-> FALSE,
                 error |-> PlainMsg("API key doesn't have permission. Check your account.")]
           ELSE IF o.code = 429
           THEN [valid |-> TRUE, error |-> NoMsg]
           ELSE [valid |-> FALSE,
                 error |-> Msg("Provider returned error {code}. Try again.", o.code, "")]
      [] o.t = "URLError" ->
           [valid |-> FALSE,
            error |-> PlainMsg("Can't reach the provider. Check your internet connection.")]
      [] OTHER ->
           [valid |-> FALSE, error |-> Msg("Validation failed: {exc}", 0, o.text)]

\* validate_api_key(provider_key, api_key) when urlopen does `o`:
\* the result and the calls made.
validate_api_key(provider_key, api_key, o) ==
    IF ~Recognized(provider_key)
    THEN [valid |-> FALSE, error |-> PlainMsg("Unknown provider"), calls |-> <<>>]
    ELSE LET r == ClassifyHttp(o)
         IN  [valid |-> r.valid, error |-> r.error, calls |-> <<"urlopen">>]

----------------------------------------------------------------------------
\* DeviceConfig: the JSON document of CONFIG_FILE.

Entry(api_key, api_base) == [api_key |-> api_key, api_base |-> api_base]

EmptyProviders == [k \in {} |-> Entry(<<>>, "")]

\* d[k] = v
SetItem(d, k, v) == [x \in (DOMAIN d) \cup {k} |-> IF x = k THEN v ELSE d[x]]

\* The document setup_step3 creates from scratch, before it sets the provider.
ScratchConfig(provider_info) ==
    [has_agents |-> TRUE,
     defaults |-> [workspace |-> "WORKSPACE_DIR",
                   restrict_to_workspace |-> TRUE,
                   provider |-> provider_info.config_key,
                   model |-> provider_info.default_model,
                   max_tokens |-> 8192,
                   temperature |-> "0.7",
                   max_tool_iterations |-> 20],
     channels |-> [telegram |-> [enabled |-> FALSE, token |-> "", allow_from |-> <<>>]],
     has_providers |-> TRUE,
     providers |-> EmptyProviders,
     gateway |-> [host |-> "0.0.0.0", port |-> 18790],
     tools |-> [web |-> [duckduckgo |-> [enabled |-> TRUE, max_results |-> 5]]],
     heartbeat |-> [enabled |-> TRUE, interval |-> 30]]

\* Documents an installer may have left in place of CONFIG_FILE before the
\* wizard first runs ("Read existing config template"): a full template that
\* names another provider, one without a "providers" key, and one without
\* "agents".
TemplateFull ==
    [ScratchConfig(SUPPORTED_PROVIDERS["openai"]) EXCEPT
        !.defaults.provider = "openrouter",
        !.defaults.model = "auto",
        !.defaults.max_tokens = 4096,
        !.channels.telegram.enabled = TRUE,
        !.providers = SetItem(SetItem(EmptyProviders, "openrouter",
                                      Entry(<<"t">>, "https://openrouter.ai/api/v1")),
                              "openai", Entry(<<"o">>, "https://proxy.local/v1")),
        !.heartbeat.interval = 60]

TemplateNoProviders ==
    [ScratchConfig(SUPPORTED_PROVIDERS["groq"]) EXCEPT
        !.has_providers = FALSE,
        !.defaults.provider = "",
        !.defaults.model = "",
        !.gateway.port = 8000]

TemplateNoAgents ==
    [ScratchConfig(SUPPORTED_PROVIDERS["groq"]) EXCEPT
        !.has_agents = FALSE,
        !.defaults.provider = "",
        !.defaults.model = ""]

NoDoc == [TemplateNoAgents EXCEPT !.has_providers = FALSE]

NoFile == [exists |-> FALSE, parses |-> FALSE, mode |-> "", doc |-> NoDoc]

File(doc, mode) == [exists |-> TRUE, parses |-> TRUE, mode |-> mode, doc |-> doc]

\* A file that json.load rejects.
GarbageFile == [exists |-> TRUE, parses |-> FALSE, mode |-> "644", doc |-> NoDoc]

InitialFiles ==
    {NoFile, GarbageFile, File(TemplateFull, "644"), File(TemplateNoProviders, "600"),
     File(TemplateNoAgents, "644")}

\* Mutant: the providers object is replaced, not extended.
MergeProvider_Overwrite(config, provider_info, api_key) ==
    [config EXCEPT
        !.defaults.provider = provider_info.config_key,
        !.defaults.model = provider_info.default_model,
        !.has_providers = TRUE,
        !.providers = SetItem(EmptyProviders, provider_info.config_key,
                              Entry(api_key, ""))]

\* Mutant: the active provider is set, its credentials are not stored.
MergeProvider_NoEntry(config, provider_info, api_key) ==
    [config EXCEPT
        !.defaults.provider = provider_info.config_key,
        !.defaults.model = provider_info.default_model,
        !.has_providers = TRUE]

\* Lines 338-346 of setup_step3: the provider and the API key set in `config`.
MergeProvider(config, provider_info, api_key) ==
    [config EXCEPT
        !.defaults.provider = provider_info.config_key,
        !.defaults.model = provider_info.default_model,
        !.has_providers = TRUE,
        !.providers = SetItem(config.providers, provider_info.config_key,
                              Entry(api_key, ""))]

----------------------------------------------------------------------------
\* Requests and responses.

NoSub == [t |-> "not_called", rc |-> 0, stdout |-> <<>>]

NoReq ==
    [op |-> "none", method |-> "", provider |-> "", api_key |-> <<>>,
     has_name |-> FALSE, name |-> "",
     http |-> NoHttp, enable |-> NoSub, start |-> NoSub,
     script |-> "unchecked", run |-> NoSub, ipq |-> NoSub,
     ssid |-> <<>>, password |-> "", country |-> <<>>,
     installed |-> FALSE, probe |-> ""]

NoDisplay == [name |-> "", provider |-> "", model |-> ""]

NoDevice == [ip |-> "", setup_complete |-> FALSE, wifi_configured |-> FALSE]

NoResp ==
    [kind |-> "none", status |-> 0, target |-> "", template |-> "",
     error |-> NoMsg, selected_provider |-> "", config |-> NoDisplay,
     exception |-> "", ok |-> FALSE, networks |-> <<>>, ip |-> "",
     service |-> "", device |-> NoDevice, installed |-> FALSE,
     has_config |-> FALSE, message |-> NoMsg, argv |-> <<>>]

Redirect(endpoint) == [NoResp EXCEPT !.kind = "redirect", !.status = 302, !.target = endpoint]

Render(template) == [NoResp EXCEPT !.kind = "render", !.status = 200, !.template = template]

Json(code) == [NoResp EXCEPT !.kind = "json", !.status = code]

\* An exception left the view function: Flask answers 500 (and re-raises it
\* when TESTING propagates exceptions).
Unhandled(exc) == [NoResp EXCEPT !.kind = "unhandled_exception", !.status = 500, !.exception = exc]

\* subprocess.run([...], capture_output=True) without a timeout
RunOutcomes ==
    {[t |-> "exited", rc |-> 0, stdout |-> <<>>],
     [t |-> "exited", rc |-> 1, stdout |-> <<>>],
     [t |-> "raised", rc |-> 0, stdout |-> <<>>]}

Raised(o) == o.t \in {"raised", "timeout"}

\* One request is handled at a time: the server is idle, takes a request, and
\* its handler runs to the response.
Idle == resp.kind = "none"

Serve == Idle /\ nreq < MaxRequests /\ nreq' = nreq + 1

\* The response is sent; the server waits for the next request.
Respond ==
    /\ ~Idle
    /\ req' = NoReq
    /\ resp' = NoResp
    /\ calls' = <<>>
    /\ UNCHANGED <<threads, TESTING, marker, wifiMarker, configFile, dirs, device_name,
                   committed, initialFile, nreq>>

----------------------------------------------------------------------------
\* The wizard's step handlers.

\* GET /setup/1
setup_step1 ==
    /\ Serve
    /\ req' = [NoReq EXCEPT !.op = "setup_step1", !.method = "GET"]
    /\ resp' = Render("setup_step1.html")
    /\ calls' = <<>>
    /\ UNCHANGED <<threads, TESTING, marker, wifiMarker, configFile, dirs, device_name, committed, initialFile>>

FormNames == {"", "mypi"}

\* GET /setup/2
setup_step2_get ==
    /\ Serve
    /\ req' = [NoReq EXCEPT !.op = "setup_step2", !.method = "GET"]
    /\ resp' = Render("setup_step2.html")
    /\ calls' = <<>>
    /\ UNCHANGED <<threads, TESTING, marker, wifiMarker, configFile, dirs, device_name, committed, initialFile>>

\* POST /setup/2: request.form.get("device_name", "piclaw") is kept
setup_step2_post ==
    /\ Serve
    /\ \E has_name \in BOOLEAN : \E name \in FormNames :
        /\ (~has_name => name = "")
        /\ req' = [NoReq EXCEPT !.op = "setup_step2", !.method = "POST",
                                !.has_name = has_name, !.name = name]
        /\ device_name' = [set |-> TRUE, value |-> IF has_name THEN name ELSE "piclaw"]
    /\ resp' = Render("setup_step2.html")
    /\ calls' = <<>>
    /\ UNCHANGED <<threads, TESTING, marker, wifiMarker, configFile, dirs, committed, initialFile>>

ProviderInputs == {NoneProvider, "", "bogus"} \cup ProviderKeys

RawKeys == {<<>>, <<" ">>, <<" ", "a", " ">>, <<"b">>}

\* Mutant: the empty API key is not checked.
Step3Bounces_NoKeyCheck(provider, api_key) ==
    \/ provider = NoneProvider \/ provider = ""
    \/ ~Recognized(provider)

\* Lines 284-289: the request goes back to step 2 without touching anything.
Step3Bounces(provider, api_key) ==
    \/ provider = NoneProvider \/ provider = ""
    \/ api_key = <<>>
    \/ ~Recognized(provider)

\* Line 292: the validator is called unless TESTING is set.
Step3Validates(testing) == ~testing

\* Mutant: the validator's verdict is not looked at.
Step3Accepts_Always(v) == TRUE

\* Line 294: the request goes on when the validator said valid.
Step3Accepts(v) == v.valid

\* Mutant: the document is always built from scratch.
ReadConfig_AlwaysScratch(file, provider_info) == ScratchConfig(provider_info)

\* Lines 308-335: the existing document, or one from scratch.
ReadConfig(file, provider_info) ==
    IF file.exists THEN file.doc ELSE ScratchConfig(provider_info)

\* Mutant: the file keeps the mode open() gave it.
WriteConfig_NoChmod(doc) == File(doc, "644")

\* Lines 348-350: json.dump into the file, then os.chmod(CONFIG_FILE, 0o600).
WriteConfig(doc) == File(doc, "600")

\* Line 282: app.config.get("device_name", "piclaw")
SessionName(dn) == IF dn.set THEN dn.value ELSE "piclaw"

\* What POST /setup/3 does with provider, api_key (untrimmed) when urlopen
\* does `http` and the two systemctl runs do `en` and `st`: the response and
\* the state it leaves.  An outcome of a call the request never makes is not
\* read.
Step3Result(testing, file, mk, dn, provider, raw_key, http, en, st) ==
    LET api_key == Strip(raw_key)
        same == [resp |-> NoResp, file |-> file, marker |-> mk,
                 mkdir |-> FALSE, calls |-> <<>>, wrote |-> FALSE]
    IN
    IF Step3Bounces(provider, api_key)
    THEN [same EXCEPT !.resp = Redirect("setup_step2")]
    ELSE
    LET provider_info == SUPPORTED_PROVIDERS[provider]
        v == IF Step3Validates(testing)
             THEN validate_api_key(provider, api_key, http)
             ELSE [valid |-> TRUE, error |-> NoMsg, calls |-> <<>>]
        vcalls == IF Step3Validates(testing)
                  THEN <<"validate_api_key">> \o v.calls ELSE <<>>
    IN
    IF ~Step3Accepts(v)
    THEN [same EXCEPT
            !.resp = [Render("setup_step2.html") EXCEPT
                        !.error = v.error, !.selected_provider = provider],
            !.calls = vcalls]
    ELSE IF file.exists /\ ~file.parses
    THEN [same EXCEPT !.resp = Unhandled("JSONDecodeError"),
                      !.mkdir = TRUE, !.calls = vcalls]
    ELSE IF ~ReadConfig(file, provider_info).has_agents
    THEN [same EXCEPT !.resp = Unhandled("KeyError"),
                      !.mkdir = TRUE, !.calls = vcalls]
    ELSE
    LET config == MergeProvider(ReadConfig(file, provider_info), provider_info, api_key)
        written == [same EXCEPT !.file = WriteConfig(config), !.mkdir = TRUE,
                                !.wrote = TRUE]
        display_config == [name |-> SessionName(dn),
                           provider |-> provider_info.name,
                           model |-> provider_info.default_model]
    IN
    IF Raised(en)
    THEN [written EXCEPT !.resp = Unhandled("OSError"),
                         !.calls = vcalls \o <<"systemctl enable">>]
    ELSE IF Raised(st)
    THEN [written EXCEPT !.resp = Unhandled("OSError"),
                         !.calls = vcalls \o <<"systemctl enable", "systemctl start">>]
    ELSE [written EXCEPT
            !.marker = TRUE,
            !.resp = [Render("setup_complete.html") EXCEPT !.config = display_config],
            !.calls = vcalls \o <<"systemctl enable", "systemctl start">>]

\* The history of the commits: the secret last written for each provider, the
\* provider written last, and whether a request that wrote the file ended in
\* an exception.  Secrets are recorded without their surrounding blanks.
RECURSIVE Trimmed(_)
Trimmed(s) ==
    IF s = <<>> THEN s
    ELSE IF s[1] = " " THEN Trimmed(Tail(s))
    ELSE IF s[Len(s)] = " " THEN Trimmed(SubSeq(s, 1, Len(s) - 1))
    ELSE s

Record(h, provider, raw_key, failed) ==
    [keys |-> SetItem(h.keys, provider, Trimmed(raw_key)),
     last |-> provider,
     cut |-> h.cut \/ failed]

\* POST /setup/3
setup_step3 ==
    /\ Serve
    /\ \E provider \in ProviderInputs, raw_key \in RawKeys :
       \E http \in (IF ~Step3Bounces(provider, Strip(raw_key)) /\ Step3Validates(TESTING)
                    THEN HttpOutcomes ELSE {NoHttp}) :
       \E en \in (IF Step3Result(TESTING, configFile, marker, device_name,
                                 provider, raw_key, http, NoSub, NoSub).wrote
                  THEN RunOutcomes ELSE {NoSub}) :
       \E st \in (IF en # NoSub /\ ~Raised(en) THEN RunOutcomes ELSE {NoSub}) :
        LET r == Step3Result(TESTING, configFile, marker, device_name,
                             provider, raw_key, http, en, st)
        IN  /\ req' = [NoReq EXCEPT !.op = "setup_step3", !.method = "POST",
                                    !.provider = provider, !.api_key = raw_key,
                                    !.http = http, !.enable = en, !.start = st]
            /\ resp' = r.resp
            /\ calls' = r.calls
            /\ configFile' = r.file
            /\ marker' = r.marker
            /\ dirs' = (dirs \/ r.mkdir)
            /\ committed' = IF r.wrote
                            THEN Record(committed, provider, raw_key,
                                        r.resp.kind = "unhandled_exception")
                            ELSE committed
    /\ UNCHANGED <<threads, TESTING, wifiMarker, device_name, initialFile>>

----------------------------------------------------------------------------
\* Routing and the AP-mode probe.

\* subprocess.run([...], capture_output=True, text=True, timeout=n)
Exited(rc, stdout) == [t |-> "exited", rc |-> rc, stdout |-> stdout]
RaisedRun == [t |-> "raised", rc |-> 0, stdout |-> <<>>]
TimedOut == [t |-> "timeout", rc |-> 0, stdout |-> <<>>]

\* Lines of `ip addr show wlan0`: whether the line holds "inet ", and the
\* address on it.
IpLine(inet, addr) == [inet |-> inet, addr |-> addr]
LinkLine == IpLine(FALSE, "")
ApLine == IpLine(TRUE, "192.168.4.1")
ApClientLine == IpLine(TRUE, "192.168.4.10")
LanLine == IpLine(TRUE, "10.0.0.7")

\* "192.168.4.1" in text
HasApAddress(line) == line.addr \in {"192.168.4.1", "192.168.4.10"}

\* "192.168.4." in text
HasApSubnet(line) == line.addr \in {"192.168.4.1", "192.168.4.10"}

IpOutcomes ==
    {Exited(1, <<>>), Exited(0, <<LinkLine, ApLine>>), Exited(0, <<LinkLine, LanLine>>),
     Exited(0, <<LinkLine, ApLine, LanLine>>), RaisedRun, TimedOut}

\* Mutant: a missing helper script is taken for AP mode.
is_ap_mode_ScriptAbsentIsAp(script, ipq) ==
    IF script # "present" THEN TRUE
    ELSE IF Raised(ipq) THEN FALSE
    ELSE \E i \in 1..Len(ipq.stdout) : HasApAddress(ipq.stdout[i])

\* _is_ap_mode(): script is "present" or "absent"
is_ap_mode(script, ipq) ==
    IF script # "present" THEN FALSE
    ELSE IF Raised(ipq) THEN FALSE
    ELSE \E i \in 1..Len(ipq.stdout) : HasApAddress(ipq.stdout[i])

\* Mutant: the setup-complete marker is not looked at.
IndexTarget_IgnoresMarker(mk, wifi_mk, ap) ==
    IF ~wifi_mk /\ ap THEN "wifi_setup" ELSE "setup_step1"

\* index(): the endpoint GET / redirects to
IndexTarget(mk, wifi_mk, ap) ==
    IF mk THEN "dashboard"
    ELSE IF ~wifi_mk /\ ap THEN "wifi_setup"
    ELSE "setup_step1"

Scripts == {"present", "absent"}

\* GET /
index ==
    /\ Serve
    /\ \E script \in (IF ~marker /\ ~wifiMarker THEN Scripts ELSE {"unchecked"}) :
       \E ipq \in (IF script = "present" THEN IpOutcomes ELSE {NoSub}) :
        /\ req' = [NoReq EXCEPT !.op = "index", !.method = "GET",
                                !.script = script, !.ipq = ipq]
        /\ resp' = Redirect(IndexTarget(marker, wifiMarker, is_ap_mode(script, ipq)))
        /\ calls' = IF script = "present" THEN <<"ip addr show wlan0">> ELSE <<>>
    /\ UNCHANGED <<threads, TESTING, marker, wifiMarker, configFile, dirs, device_name, committed, initialFile>>

\* GET /wifi
wifi_setup ==
    /\ Serve
    /\ req' = [NoReq EXCEPT !.op = "wifi_setup", !.method = "GET"]
    /\ resp' = Render("wifi_setup.html")
    /\ calls' = <<>>
    /\ UNCHANGED <<threads, TESTING, marker, wifiMarker, configFile, dirs, device_name, committed, initialFile>>

----------------------------------------------------------------------------
\* Dashboard, status, restart, key validation.

IsActiveOutcomes ==
    {Exited(0, <<"active">>), Exited(3, <<"inactive">>), RaisedRun, TimedOut}

\* dashboard(): picoclaw_status
ServiceStatus(run) == IF Raised(run) THEN "unknown" ELSE run.stdout[1]

\* dashboard(): the provider and model read back from the file
DashboardConfig(file) ==
    IF ~file.exists THEN NoDisplay
    ELSE IF file.doc.has_agents
    THEN [name |-> "", provider |-> file.doc.defaults.provider,
          model |-> file.doc.defaults.model]
    ELSE [name |-> "", provider |-> "N/A", model |-> "N/A"]

\* GET /dashboard
dashboard ==
    /\ Serve
    /\ \E run \in IsActiveOutcomes :
        /\ req' = [NoReq EXCEPT !.op = "dashboard", !.method = "GET", !.run = run]
        /\ resp' = IF configFile.exists /\ ~configFile.parses
                   THEN Unhandled("JSONDecodeError")
                   ELSE [Render("dashboard.html") EXCEPT
                            !.service = ServiceStatus(run),
                            !.config = DashboardConfig(configFile)]
    /\ calls' = <<"systemctl is-active">>
    /\ UNCHANGED <<threads, TESTING, marker, wifiMarker, configFile, dirs, device_name, committed, initialFile>>

\* POST /api/validate-key
api_validate_key ==
    /\ Serve
    /\ \E provider \in ProviderInputs \ {NoneProvider}, raw_key \in RawKeys :
       \E http \in (IF provider # "" /\ Strip(raw_key) # <<>> /\ Recognized(provider)
                    THEN HttpOutcomes ELSE {NoHttp}) :
        LET api_key == Strip(raw_key)
            v == validate_api_key(provider, api_key, http)
        IN  /\ req' = [NoReq EXCEPT !.op = "api_validate_key", !.method = "POST",
                                    !.provider = provider, !.api_key = raw_key,
                                    !.http = http]
            /\ IF provider = "" \/ api_key = <<>>
               THEN /\ resp' = [Json(200) EXCEPT
                                  !.ok = FALSE,
                                  !.error = PlainMsg("Provider and API key are required.")]
                    /\ calls' = <<>>
               ELSE /\ resp' = [Json(200) EXCEPT !.ok = v.valid, !.error = v.error]
                    /\ calls' = <<"validate_api_key">> \o v.calls
    /\ UNCHANGED <<threads, TESTING, marker, wifiMarker, configFile, dirs, device_name, committed, initialFile>>

\* get_device_info(): the UDP probe yields an address or "unknown"
ProbeResults == {"unknown", "10.0.0.7"}

\* Mutant: the setup-complete marker is reported absent.
get_device_info_NoMarker(probe, mk, wifi_mk) ==
    [ip |-> probe, setup_complete |-> FALSE, wifi_configured |-> wifi_mk]

get_device_info(probe, mk, wifi_mk) ==
    [ip |-> probe, setup_complete |-> mk, wifi_configured |-> wifi_mk]

\* GET /api/status
api_status ==
    /\ Serve
    /\ \E installed \in BOOLEAN, probe \in ProbeResults :
        /\ req' = [NoReq EXCEPT !.op = "api_status", !.method = "GET",
                                !.installed = installed, !.probe = probe]
        /\ resp' = [Json(200) EXCEPT
                      !.device = get_device_info(probe, marker, wifiMarker),
                      !.installed = installed,
                      !.has_config = configFile.exists,
                      !.ok = marker]
    /\ calls' = <<>>
    /\ UNCHANGED <<threads, TESTING, marker, wifiMarker, configFile, dirs, device_name, committed, initialFile>>

RestartOutcomes == {Exited(0, <<>>), Exited(1, <<>>), RaisedRun, TimedOut}

\* str(e) of the exception a subprocess.run raised
RunErrorText(run) ==
    IF run.t = "timeout" THEN "Command timed out" ELSE "No such file or directory"

\* api_restart(): the JSON answer
RestartResponse(run) ==
    IF Raised(run)
    THEN [Json(500) EXCEPT !.service = "error",
                           !.message = Msg("{exc}", 0, RunErrorText(run))]
    ELSE [Json(200) EXCEPT !.service = "ok", !.ok = TRUE]

\* POST /api/restart
api_restart ==
    /\ Serve
    /\ \E run \in RestartOutcomes :
        /\ req' = [NoReq EXCEPT !.op = "api_restart", !.method = "POST", !.run = run]
        /\ resp' = RestartResponse(run)
    /\ calls' = <<"systemctl restart">>
    /\ UNCHANGED <<threads, TESTING, marker, wifiMarker, configFile, dirs, device_name, committed, initialFile>>

----------------------------------------------------------------------------
\* The WiFi bridge.

\* One line of the helper script's scan output.
\*   "blank"      only whitespace
\*   "notjson"    json.loads raises JSONDecodeError
\*   "nonobject"  valid JSON that is no object (net.get raises AttributeError)
\*   "badssid"    an object whose "ssid" is no string (.strip raises AttributeError)
\*   "object"     an object; ssid is <<>> when it has no "ssid"
ScanLine(k, ssid, signal) == [k |-> k, ssid |-> ssid, signal |-> signal]
BlankLine == ScanLine("blank", <<>>, 0)
NotJsonLine == ScanLine("notjson", <<>>, 0)
NonObjectLine == ScanLine("nonobject", <<>>, 0)
BadSsidLine == ScanLine("badssid", <<>>, 0)
Net(ssid, signal) == ScanLine("object", ssid, signal)

\* The for loop of api_wifi_scan over the remaining lines.
RECURSIVE ScanLoop(_, _, _)
ScanLoop(lines, networks, seen) ==
    IF lines = <<>> THEN [raised |-> FALSE, networks |-> networks]
    ELSE LET line == Head(lines)
             rest == Tail(lines)
         IN  CASE line.k = "blank" -> ScanLoop(rest, networks, seen)
               [] line.k = "notjson" -> ScanLoop(rest, networks, seen)
               [] line.k \in {"nonobject", "badssid"} ->
                    [raised |-> TRUE, networks |-> <<>>]
               [] OTHER ->
                    LET ssid == Strip(line.ssid)
                    IN  IF ssid # <<>> /\ ssid \notin seen
                        THEN ScanLoop(rest, Append(networks, line), seen \cup {ssid})
                        ELSE ScanLoop(rest, networks, seen)

ParseScan(lines) == ScanLoop(lines, <<>>, {})

ScanOutputs ==
    {<<>>,
     <<Net(<<"a">>, 1), NotJsonLine, Net(<<"b">>, 2), Net(<<"a", " ">>, 3)>>,
     <<BlankLine, Net(<<>>, 1), Net(<<"b">>, 1)>>,
     <<Net(<<"a">>, 1), NonObjectLine>>}

ScanOutcomes == {Exited(0, o) : o \in ScanOutputs} \cup {RaisedRun, TimedOut}

\* Mutant: a timed out scan is reported like any other failure of the run.
ScanResponse_NoTimeoutClause(script, run) ==
    IF script # "present"
    THEN [Json(200) EXCEPT !.error = PlainMsg("WiFi setup not available on this device.")]
    ELSE IF Raised(run)
    THEN [Json(200) EXCEPT !.error = Msg("{exc}", 0, RunErrorText(run))]
    ELSE LET r == ParseScan(run.stdout)
         IN  IF r.raised
             THEN [Json(200) EXCEPT !.error = Msg("{exc}", 0, "AttributeError")]
             ELSE [Json(200) EXCEPT !.ok = TRUE, !.networks = r.networks]

\* api_wifi_scan(): the JSON answer
ScanResponse(script, run) ==
    IF script # "present"
    THEN [Json(200) EXCEPT !.error = PlainMsg("WiFi setup not available on this device.")]
    ELSE IF run.t = "timeout"
    THEN [Json(200) EXCEPT !.error = PlainMsg("WiFi scan timed out. Try again.")]
    ELSE IF run.t = "raised"
    THEN [Json(200) EXCEPT !.error = Msg("{exc}", 0, RunErrorText(run))]
    ELSE LET r == ParseScan(run.stdout)
         IN  IF r.raised
             THEN [Json(200) EXCEPT !.error = Msg("{exc}", 0, "AttributeError")]
             ELSE [Json(200) EXCEPT !.ok = TRUE, !.networks = r.networks]

\* POST /api/wifi/scan
api_wifi_scan ==
    /\ Serve
    /\ \E script \in Scripts :
       \E run \in (IF script = "present" THEN ScanOutcomes ELSE {NoSub}) :
        /\ req' = [NoReq EXCEPT !.op = "api_wifi_scan", !.method = "POST",
                                !.script = script, !.run = run]
        /\ resp' = ScanResponse(script, run)
        /\ calls' = IF script = "present" THEN <<"wifi-setup.sh scan">> ELSE <<>>
    /\ UNCHANGED <<threads, TESTING, marker, wifiMarker, configFile, dirs, device_name, committed, initialFile>>

UpperChar(c) == CASE c = "d" -> "D" [] c = "e" -> "E" [] OTHER -> c

\* str.upper()
Upper(s) == [i \in 1..Len(s) |-> UpperChar(s[i])]

DefaultCountry == <<"U", "S">>

\* data.get("country", "US").strip().upper(); <<>> stands for no field
Country(raw) == Upper(Strip(IF raw = <<>> THEN DefaultCountry ELSE raw))

\* The address the wizard reports after a connect: the first "inet " line
\* outside the AP's subnet.
RECURSIVE NewIp(_)
NewIp(lines) ==
    IF lines = <<>> THEN "unknown"
    ELSE IF Head(lines).inet /\ ~HasApSubnet(Head(lines)) THEN Head(lines).addr
    ELSE NewIp(Tail(lines))

ConnectOutcomes == {Exited(0, <<>>), Exited(1, <<>>), RaisedRun, TimedOut}

\* Mutant: the password is checked before the network name.
ConnectResponse_PasswordFirst(raw_ssid, password, raw_country, script, run, ipq) ==
    IF password = ""
    THEN [Json(200) EXCEPT !.error = PlainMsg("Password is required.")]
    ELSE [Json(200) EXCEPT !.error = PlainMsg("SSID is required.")]

\* api_wifi_connect(): the JSON answer; script says whether WIFI_SCRIPT exists
ConnectResponse(raw_ssid, password, raw_country, script, run, ipq) ==
    LET ssid == Strip(raw_ssid)
    IN
    IF ssid = <<>>
    THEN [Json(200) EXCEPT !.error = PlainMsg("SSID is required.")]
    ELSE IF password = ""
    THEN [Json(200) EXCEPT !.error = PlainMsg("Password is required.")]
    ELSE IF script # "present"
    THEN [Json(200) EXCEPT !.error = PlainMsg("WiFi setup not available on this device.")]
    ELSE IF run.t = "timeout"
    THEN [Json(200) EXCEPT !.error = PlainMsg("Connection timed out. Try again."),
                           !.argv = <<ssid, password, Country(raw_country)>>]
    ELSE IF run.t = "raised"
    THEN [Json(200) EXCEPT !.error = Msg("{exc}", 0, RunErrorText(run)),
                           !.argv = <<ssid, password, Country(raw_country)>>]
    ELSE IF run.rc = 0
    THEN [Json(200) EXCEPT
            !.ok = TRUE,
            !.ip = IF Raised(ipq) THEN "unknown" ELSE NewIp(ipq.stdout),
            !.argv = <<ssid, password, Country(raw_country)>>]
    ELSE [Json(200) EXCEPT
            !.error = PlainMsg("Could not connect. Check your password and try again."),
            !.argv = <<ssid, password, Country(raw_country)>>]

Ssids == {<<>>, <<" ">>, <<" ", "n">>}
Passwords == {"", "pw"}
Countries == {<<>>, <<" ", "d", "e">>}

\* POST /api/wifi/connect
api_wifi_connect ==
    /\ Serve
    /\ \E ssid \in Ssids, password \in Passwords, country \in Countries :
       \E script \in Scripts :
       \E run \in (IF Strip(ssid) # <<>> /\ password # "" /\ script = "present"
                   THEN ConnectOutcomes ELSE {NoSub}) :
       \E ipq \in (IF run.t = "exited" /\ run.rc = 0 THEN IpOutcomes ELSE {NoSub}) :
        /\ req' = [NoReq EXCEPT !.op = "api_wifi_connect", !.method = "POST",
                                !.ssid = ssid, !.password = password,
                                !.country = country, !.script = script,
                                !.run = run, !.ipq = ipq]
        /\ resp' = ConnectResponse(ssid, password, country, script, run, ipq)
        /\ calls' = (IF run # NoSub THEN <<"wifi-setup.sh connect">> ELSE <<>>)
                    \o (IF ipq # NoSub THEN <<"ip addr show wlan0">> ELSE <<>>)
    /\ UNCHANGED <<threads, TESTING, marker, wifiMarker, configFile, dirs, device_name, committed, initialFile>>

----------------------------------------------------------------------------

NoCommits == [keys |-> [k \in {} |-> <<>>], last |-> "", cut |-> FALSE]

\* The server's worker threads that may run setup_step3 side by side, and a
\* worker that is not inside setup_step3.
Threads == {"t1", "t2"}

IdleThread ==
    [pc |-> "idle", provider |-> "", api_key |-> <<>>, config |-> NoDoc,
     clean |-> TRUE, stale |-> FALSE, exception |-> ""]

NoThreads == [t \in Threads |-> IdleThread]

Init ==
    /\ TESTING \in BOOLEAN
    /\ marker = FALSE
    /\ wifiMarker \in BOOLEAN
    /\ configFile \in InitialFiles
    /\ dirs \in BOOLEAN
    /\ (configFile.exists => dirs)
    /\ device_name = [set |-> FALSE, value |-> ""]
    /\ req = NoReq
    /\ resp = NoResp
    /\ calls = <<>>
    /\ committed = NoCommits
    /\ initialFile = configFile
    /\ nreq = 0
    /\ threads = NoThreads

Next ==
    \/ setup_step1
    \/ setup_step2_get
    \/ setup_step2_post
    \/ setup_step3
    \/ index
    \/ wifi_setup
    \/ api_wifi_scan
    \/ api_wifi_connect
    \/ dashboard
    \/ api_validate_key
    \/ api_status
    \/ api_restart
    \/ Respond

Spec == Init /\ [][Next]_vars

----------------------------------------------------------------------------
\* Two POST /setup/3 requests side by side.  The development server handles
\* each request in a thread of its own; nothing in setup_step3 takes a lock,
\* so the steps of two requests interleave at every access to CONFIG_FILE.

RaceKeys == {<<"a">>, <<"b">>}

RaceFrame ==
    UNCHANGED <<TESTING, wifiMarker, device_name, req, resp, calls, committed,
                initialFile, nreq>>

Goto(t, pc) == [threads EXCEPT ![t].pc = pc]

Fail(t, exc) == [threads EXCEPT ![t].pc = "failed", ![t].exception = exc]

\* Lines 280-301: the form is read and the key validated.
Begin(t) ==
    /\ threads[t].pc = "idle"
    /\ \E provider \in ProviderKeys, raw_key \in RaceKeys :
       \E http \in (IF Step3Validates(TESTING) THEN HttpOutcomes ELSE {NoHttp}) :
        LET api_key == Strip(raw_key)
            v == IF Step3Validates(TESTING)
                 THEN validate_api_key(provider, api_key, http)
                 ELSE [valid |-> TRUE, error |-> NoMsg, calls |-> <<>>]
            pc == IF Step3Bounces(provider, api_key) THEN "bounced"
                  ELSE IF ~Step3Accepts(v) THEN "rejected"
                  ELSE "validated"
        IN  threads' = [threads EXCEPT ![t].pc = pc, ![t].provider = provider,
                                       ![t].api_key = api_key]
    /\ UNCHANGED <<marker, configFile, dirs>>
    /\ RaceFrame

\* Lines 304-346: the directories are made, the file is read (or the
\* document made from scratch) and the provider set in the thread's copy.
ReadMerge(t) ==
    /\ threads[t].pc = "validated"
    /\ dirs' = TRUE
    /\ LET provider_info == SUPPORTED_PROVIDERS[threads[t].provider]
       IN  threads' =
             IF configFile.exists /\ ~configFile.parses
             THEN Fail(t, "JSONDecodeError")
             ELSE IF ~ReadConfig(configFile, provider_info).has_agents
             THEN Fail(t, "KeyError")
             ELSE [threads EXCEPT
                     ![t].pc = "merged",
                     ![t].config = MergeProvider(ReadConfig(configFile, provider_info),
                                                 provider_info, threads[t].api_key)]
    /\ UNCHANGED <<marker, configFile>>
    /\ RaceFrame

\* Line 348: open(CONFIG_FILE, "w") empties the file.
Truncate(t) ==
    /\ threads[t].pc = "merged"
    /\ configFile' = [exists |-> TRUE, parses |-> FALSE,
                      mode |-> IF configFile.exists THEN configFile.mode ELSE "644",
                      doc |-> NoDoc]
    /\ threads' = [threads EXCEPT ![t].pc = "opened", ![t].clean = TRUE]
    /\ UNCHANGED <<marker, dirs>>
    /\ RaceFrame

\* Lines 349-350: json.dump, close, chmod.  When another thread wrote through
\* its own handle since this one opened the file, the bytes of the two mix:
\* the file holds this thread's document or no document at all.
Dump(t) ==
    /\ threads[t].pc = "opened"
    /\ configFile' \in
          (IF threads[t].clean THEN {WriteConfig(threads[t].config)}
           ELSE {WriteConfig(threads[t].config), [GarbageFile EXCEPT !.mode = "600"]})
    /\ threads' =
          [u \in Threads |->
             IF u = t THEN [threads[u] EXCEPT !.pc = "written"]
             ELSE IF threads[u].pc = "opened"
             THEN [threads[u] EXCEPT !.clean = FALSE, !.stale = TRUE]
             ELSE IF threads[u].pc = "merged"
             THEN [threads[u] EXCEPT !.stale = TRUE]
             ELSE threads[u]]
    /\ UNCHANGED <<marker, dirs>>
    /\ RaceFrame

\* Line 360: systemctl enable
Enable(t) ==
    /\ threads[t].pc = "written"
    /\ \E en \in RunOutcomes :
          threads' = IF Raised(en) THEN Fail(t, "OSError") ELSE Goto(t, "enabled")
    /\ UNCHANGED <<marker, configFile, dirs>>
    /\ RaceFrame

\* Line 361: systemctl start
Start(t) ==
    /\ threads[t].pc = "enabled"
    /\ \E st \in RunOutcomes :
          threads' = IF Raised(st) THEN Fail(t, "OSError") ELSE Goto(t, "started")
    /\ UNCHANGED <<marker, configFile, dirs>>
    /\ RaceFrame

\* Lines 364-366: the marker is created and the completion view returned.
Touch(t) ==
    /\ threads[t].pc = "started"
    /\ marker' = TRUE
    /\ threads' = Goto(t, "done")
    /\ UNCHANGED <<configFile, dirs>>
    /\ RaceFrame

InitRace ==
    /\ TESTING \in BOOLEAN
    /\ marker = FALSE
    /\ wifiMarker = FALSE
    /\ configFile \in InitialFiles
    /\ dirs = configFile.exists
    /\ device_name = [set |-> FALSE, value |-> ""]
    /\ req = NoReq
    /\ resp = NoResp
    /\ calls = <<>>
    /\ committed = NoCommits
    /\ initialFile = configFile
    /\ nreq = 0
    /\ threads = NoThreads

NextRace ==
    \E t \in Threads :
        \/ Begin(t)
        \/ ReadMerge(t)
        \/ Truncate(t)
        \/ Dump(t)
        \/ Enable(t)
        \/ Start(t)
        \/ Touch(t)

SpecRace == InitRace /\ [][NextRace]_vars

----------------------------------------------------------------------------
\* Properties.

\* A string of blanks only (the empty string included).
Blank(s) == \A i \in 1..Len(s) : s[i] = " "

Called(c) == \E i \in 1..Len(calls) : calls[i] = c

\* The wlan0 output of the request shows the access point's address.
ApDetected(r) ==
    /\ r.script = "present"
    /\ r.ipq.t = "exited"
    /\ \E i \in 1..Len(r.ipq.stdout) :
          r.ipq.stdout[i].addr \in {"192.168.4.1", "192.168.4.10"}

\* C1: GET / redirects to dashboard iff the setup-complete marker exists;
\* without the marker it redirects to wifi iff the WiFi-configured marker is
\* absent and AP mode is detected (helper script present and 192.168.4.1 in
\* the wlan0 output), and to step1 in every other case, including a missing
\* helper script and a failed or timed out interface query.
C1_IndexRouting ==
    req.op = "index" =>
        /\ resp.kind = "redirect"
        /\ (resp.target = "dashboard") <=> marker
        /\ ~marker => ((resp.target = "wifi_setup") <=> (~wifiMarker /\ ApDetected(req)))
        /\ (~marker /\ ~(~wifiMarker /\ ApDetected(req))) => resp.target = "setup_step1"

C1_Witness ==
    /\ req.op = "index"
    /\ resp.target = "wifi_setup"
    /\ ~marker /\ ~wifiMarker /\ ApDetected(req)

\* The request is a POST /setup/3 with a recognized provider and a key that
\* is not blank.
Step3WellFormed(r) ==
    r.op = "setup_step3" /\ r.provider \in ProviderKeys /\ ~Blank(r.api_key)

\* The validator's verdict on the request's HTTP outcome is "valid".
ValidatedOk(r) ==
    r.http # NoHttp /\ validate_api_key(r.provider, Trimmed(r.api_key), r.http).valid

\* C2: a POST /setup/3 with a recognized provider and a non-empty key, once
\* validation returns valid or the bypass flag is on (the validator is then
\* not called), ends with the config file present with mode 600, the chosen
\* provider's config key and default model in agents.defaults, the trimmed
\* secret under providers.<config key>.api_key, and the setup-complete marker
\* present.  Stated for a config file that was absent or a readable document
\* with agents.defaults before the request.
C2_CommitPersists ==
    (/\ Step3WellFormed(req)
     /\ TESTING \/ ValidatedOk(req)
     /\ ~(configFile.exists /\ (~configFile.parses \/ ~configFile.doc.has_agents)))
    =>
        LET info == SUPPORTED_PROVIDERS[req.provider]
            doc == configFile.doc
        IN  /\ TESTING => ~Called("validate_api_key")
            /\ configFile.exists
            /\ configFile.mode = "600"
            /\ doc.defaults.provider = info.config_key
            /\ doc.defaults.model = info.default_model
            /\ info.config_key \in DOMAIN doc.providers
            /\ doc.providers[info.config_key].api_key = Trimmed(req.api_key)
            /\ marker

\* The request is a POST /setup/3 whose provider is missing, empty or
\* unrecognized, or whose key is blank.
Step3Malformed(r) ==
    r.op = "setup_step3" /\ (r.provider \notin ProviderKeys \/ Blank(r.api_key))

\* C3: a POST /setup/3 with a missing, empty or unrecognized provider, or an
\* empty or whitespace-only key, leaves the config file and the marker as they
\* were, calls neither the validator nor the service manager, and redirects
\* to /setup/2, with or without an existing config file.
C3_BadInputBounces ==
    [][Step3Malformed(req') =>
          /\ configFile' = configFile
          /\ marker' = marker
          /\ calls' = <<>>
          /\ resp' = Redirect("setup_step2")]_vars

C3_Witness ==
    /\ Step3Malformed(req)
    /\ req.provider \in ProviderKeys
    /\ req.api_key = <<" ">>
    /\ configFile.exists
    /\ resp.target = "setup_step2"

\* C4: with the bypass off, a POST /setup/3 with a recognized provider and a
\* non-empty key that the validator rejects leaves the marker and the config
\* file as they were, runs neither systemctl enable nor start, and renders
\* the provider step with the validator's message and the submitted provider
\* selected.
C4_RejectedKey ==
    [][(/\ Step3WellFormed(req')
        /\ ~TESTING
        /\ req'.http # NoHttp
        /\ ~validate_api_key(req'.provider, Trimmed(req'.api_key), req'.http).valid)
       =>
          /\ marker' = marker
          /\ configFile' = configFile
          /\ \A i \in 1..Len(calls') :
                calls'[i] \notin {"systemctl enable", "systemctl start"}
          /\ resp'.kind = "render"
          /\ resp'.template = "setup_step2.html"
          /\ resp'.error =
                validate_api_key(req'.provider, Trimmed(req'.api_key), req'.http).error
          /\ resp'.error # NoMsg
          /\ resp'.selected_provider = req'.provider]_vars

C4_Witness ==
    /\ Step3WellFormed(req)
    /\ ~TESTING
    /\ req.http.t = "HTTPError" /\ req.http.code = 401
    /\ ~marker
    /\ resp.template = "setup_step2.html"
    /\ resp.selected_provider = req.provider

\* C5: starting from no config file, after any sequence of successful
\* /setup/3 commits, providers holds an entry for every provider committed so
\* far, with the key last submitted for it, and agents.defaults.provider and
\* model are those of the most recent commit.
C5_ProvidersAccumulate ==
    (~initialFile.exists /\ ~committed.cut) =>
        IF DOMAIN committed.keys = {}
        THEN ~configFile.exists
        ELSE /\ configFile.exists
             /\ \A k \in DOMAIN committed.keys :
                   /\ SUPPORTED_PROVIDERS[k].config_key \in DOMAIN configFile.doc.providers
                   /\ configFile.doc.providers[SUPPORTED_PROVIDERS[k].config_key].api_key
                        = committed.keys[k]
             /\ configFile.doc.defaults.provider
                  = SUPPORTED_PROVIDERS[committed.last].config_key
             /\ configFile.doc.defaults.model
                  = SUPPORTED_PROVIDERS[committed.last].default_model

C5_Witness ==
    /\ ~initialFile.exists /\ ~committed.cut
    /\ Cardinality(DOMAIN committed.keys) = 2
    /\ Cardinality(DOMAIN configFile.doc.providers) = 2

\* C6: whenever the config file exists and only the wizard wrote it,
\* agents.defaults.provider is a key of providers.
C6_ActiveProviderHasCredentials ==
    (configFile.exists /\ ~initialFile.exists) =>
        configFile.doc.defaults.provider \in DOMAIN configFile.doc.providers

C6_Witness ==
    /\ configFile.exists /\ ~initialFile.exists
    /\ Cardinality(DOMAIN configFile.doc.providers) = 2
    /\ configFile.doc.defaults.provider \in DOMAIN configFile.doc.providers

\* The document without the three things a commit for provider key k sets.
Frame(doc, k) ==
    [doc EXCEPT
        !.defaults.provider = "",
        !.defaults.model = "",
        !.has_providers = TRUE,
        !.providers = [x \in (DOMAIN doc.providers) \ {k} |-> doc.providers[x]]]

\* C7: a successful /setup/3 commit on an existing config file changes only
\* agents.defaults.provider, agents.defaults.model and the chosen provider's
\* entry of providers; every other field, and every other provider's entry,
\* keeps its value.
C7_CommitFrame ==
    [][(/\ req'.op = "setup_step3"
        /\ resp'.template = "setup_complete.html"
        /\ configFile.exists)
       =>
          Frame(configFile'.doc, SUPPORTED_PROVIDERS[req'.provider].config_key)
            = Frame(configFile.doc, SUPPORTED_PROVIDERS[req'.provider].config_key)]_vars

C7_Witness ==
    /\ req.op = "setup_step3"
    /\ resp.template = "setup_complete.html"
    /\ initialFile = File(TemplateFull, "644")
    /\ configFile.doc.defaults.max_tokens = 4096
    /\ "openrouter" \in DOMAIN configFile.doc.providers
    /\ req.provider \in DOMAIN configFile.doc.providers

ToolFailed(r) ==
    Raised(r.enable) \/ Raised(r.start) \/ Raised(r.run) \/ Raised(r.ipq)

\* C9: when an external tool invoked by a handler fails (systemctl enable or
\* start in /setup/3, is-active in /dashboard, restart in /api/restart, the
\* interface query, the WiFi helper script), the handler catches the failure
\* and returns a response; the failure does not leave the handler as an
\* unhandled exception.
C9_ToolFailuresCaught ==
    ToolFailed(req) =>
        ~(resp.kind = "unhandled_exception" /\ resp.exception = "OSError")

\* C10 as stated: once the setup-complete marker is present, no request to
\* /setup/1, /setup/2 or POST /setup/3 leads back into a setup step or
\* re-runs the step-3 commit.
C10_DashboardTerminal ==
    [][(marker /\ req'.op \in {"setup_step1", "setup_step2", "setup_step3"}) =>
          /\ resp'.template \notin
                {"setup_step1.html", "setup_step2.html", "setup_complete.html"}
          /\ configFile' = configFile]_vars

\* C10 amended: once the setup-complete marker is present no wizard request
\* removes it and GET / redirects to dashboard; /setup/1 and /setup/2 still
\* render their step pages, and POST /setup/3 remains served (a valid one
\* re-runs the commit).
C10_RootStaysOnDashboard ==
    [][marker =>
          /\ marker'
          /\ req'.op = "index" => resp' = Redirect("dashboard")
          /\ req'.op = "setup_step1" => resp'.template = "setup_step1.html"
          /\ req'.op = "setup_step2" => resp'.template = "setup_step2.html"]_vars

C10_Witness ==
    /\ marker
    /\ req.op = "setup_step3"
    /\ resp.template = "setup_complete.html"
    /\ Cardinality(DOMAIN committed.keys) = 2
    /\ ~committed.cut

\* C11: the setup-complete marker is monotone.  No wizard request removes it;
\* it appears only with the completion view of a POST /setup/3; and once it
\* is there every GET / redirects to dashboard and every GET /api/status
\* reports setup_complete true, in the device block and in the picoclaw block.
C11_MarkerMonotone ==
    [][/\ marker => marker'
       /\ (~marker /\ marker') =>
             (req'.op = "setup_step3" /\ resp'.template = "setup_complete.html")
       /\ (marker /\ req'.op = "index") => resp'.target = "dashboard"
       /\ (marker /\ req'.op = "api_status") =>
             (resp'.device.setup_complete /\ resp'.ok)]_vars

C11_Witness ==
    /\ marker
    /\ committed.last \in ProviderKeys
    /\ req.op = "api_status"
    /\ resp.device.setup_complete

\* C12: POST /api/wifi/connect with an empty or blank ssid, or with an empty
\* password, answers success=false with the error that names the missing
\* field (the SSID when both are missing), and runs neither the helper script
\* nor the interface query, whether or not the helper script exists.
C12_ConnectValidation ==
    (req.op = "api_wifi_connect" /\ (Blank(req.ssid) \/ req.password = "")) =>
        /\ resp.kind = "json"
        /\ ~resp.ok
        /\ resp.error = PlainMsg(IF Blank(req.ssid) THEN "SSID is required."
                                                     ELSE "Password is required.")
        /\ calls = <<>>
        /\ resp.argv = <<>>
        /\ req.run = NoSub /\ req.ipq = NoSub

C12_Witness ==
    /\ req.op = "api_wifi_connect"
    /\ req.ssid = <<" ">>
    /\ req.password = ""
    /\ req.script = "present"
    /\ resp.error = PlainMsg("SSID is required.")

\* A scan line that describes a network: a JSON object with a name that is
\* not blank.
NamesNetwork(l) == l.k = "object" /\ ~Blank(l.ssid)

\* The lines that are the first of their network name, in their order.
RECURSIVE FirstSeen(_, _)
FirstSeen(lines, i) ==
    IF i > Len(lines) THEN <<>>
    ELSE IF /\ NamesNetwork(lines[i])
            /\ \A j \in 1..(i - 1) :
                  NamesNetwork(lines[j]) =>
                      Trimmed(lines[j].ssid) # Trimmed(lines[i].ssid)
         THEN <<lines[i]>> \o FirstSeen(lines, i + 1)
         ELSE FirstSeen(lines, i + 1)

\* C13: for every scan output, /api/wifi/scan returns, in first-seen order,
\* exactly the first network object of each distinct network name; lines that
\* are no network objects are skipped and do not affect the networks of the
\* other lines; no two returned networks share a name; and without the
\* helper script the answer is an empty list with an error string.
C13_ScanFirstSeen ==
    req.op = "api_wifi_scan" =>
        /\ resp.kind = "json"
        /\ req.script = "absent" =>
              (resp.networks = <<>> /\ resp.error # NoMsg /\ calls = <<>>)
        /\ (req.script = "present" /\ req.run.t = "exited") =>
              /\ resp.networks = FirstSeen(req.run.stdout, 1)
              /\ \A i, j \in 1..Len(resp.networks) :
                    Trimmed(resp.networks[i].ssid) = Trimmed(resp.networks[j].ssid)
                        => i = j

\* Some call the request made ran into its timeout.
TimedOutCall(r) ==
    \/ r.run.t = "timeout"
    \/ r.ipq.t = "timeout"
    \/ (r.http.t = "Exception" /\ r.http.text = "timed out")

\* The messages that say "timed out, try again".
TimeoutTexts ==
    {PlainMsg("WiFi scan timed out. Try again."),
     PlainMsg("Connection timed out. Try again.")}

\* C14 as stated: a timeout of any subprocess or HTTPS call (scan, connect,
\* restart, is-active, interface query, key validation) is reported to the
\* caller with a timeout-specific "timed out, try again" message.
C14_TimeoutSpecific ==
    TimedOutCall(req) => resp.error \in TimeoutTexts

\* C14 amended: only the two helper-script calls have a timeout clause of
\* their own.  A timed out scan or connect answers success=false with its
\* "timed out. Try again." message, which a run that fails otherwise never
\* gets.  Every other timeout is caught by the handler of any failure of that
\* call: is-active gives status "unknown", the interface query gives no AP
\* mode on GET / and address "unknown" after a connect, restart gives a 500
\* with the exception's text, and a timed out validation read gives
\* "Validation failed: ..." with valid false.
C14_TimeoutsCaught ==
    /\ (req.op = "api_wifi_scan" /\ req.run.t = "timeout") =>
          resp = [Json(200) EXCEPT
                    !.error = PlainMsg("WiFi scan timed out. Try again.")]
    /\ (req.op = "api_wifi_connect" /\ req.run.t = "timeout") =>
          (~resp.ok /\ resp.error = PlainMsg("Connection timed out. Try again."))
    /\ (req.op \in {"api_wifi_scan", "api_wifi_connect"} /\ req.run.t # "timeout") =>
          resp.error \notin TimeoutTexts
    /\ (req.op = "api_restart" /\ Raised(req.run)) =>
          /\ resp.kind = "json" /\ resp.status = 500 /\ resp.service = "error"
          /\ resp.message.fmt = "{exc}"
    /\ (req.op = "dashboard" /\ Raised(req.run)) =>
          \/ resp.service = "unknown" /\ resp.template = "dashboard.html"
          \/ resp.exception = "JSONDecodeError"
    /\ (req.op = "index" /\ Raised(req.ipq)) => resp = Redirect("setup_step1")
    /\ (req.op = "api_wifi_connect" /\ Raised(req.ipq)) =>
          (resp.ok /\ resp.ip = "unknown")
    /\ (req.op \in {"api_validate_key", "setup_step3"} /\ req.http.t = "Exception") =>
          /\ resp.kind \in {"json", "render"} /\ ~resp.ok
          /\ resp.error = Msg("Validation failed: {exc}", 0, req.http.text)

C14_Witness ==
    /\ req.op = "api_wifi_scan"
    /\ req.run.t = "timeout"
    /\ resp.error \in TimeoutTexts

\* C15: the device name on the completion view of a successful /setup/3 is
\* the name the most recent POST /setup/2 submitted, and it is "piclaw" when
\* no name was submitted in this process and when the submitted name is empty.
C15_CompletionName ==
    (req.op = "setup_step3" /\ resp.template = "setup_complete.html") =>
        resp.config.name =
            IF ~device_name.set \/ device_name.value = "" THEN "piclaw"
            ELSE device_name.value

\* The request is a POST /setup/3 that goes on to the commit: it is well
\* formed, and the bypass flag is on or the provider did not refuse the key.
Commits(r) ==
    /\ Step3WellFormed(r)
    /\ \/ TESTING
       \/ r.http.t = "response"
       \/ (r.http.t = "HTTPError" /\ r.http.code = 429)

\* C16: only two operations change wizard state.  POST /setup/2 changes the
\* session device name and neither the config file nor a marker; a committing
\* POST /setup/3 changes the config file and the setup-complete marker and
\* not the session name; every other request, a POST /setup/3 that does not
\* commit included, leaves the session name, the config file and the
\* setup-complete marker as they are; and no request creates or removes the
\* WiFi-configured marker.
C16_Frame ==
    [][LET step2_post == req'.op = "setup_step2" /\ req'.method = "POST"
           commit == req'.op = "setup_step3" /\ Commits(req')
       IN  /\ wifiMarker' = wifiMarker
           /\ step2_post => UNCHANGED <<configFile, marker>>
           /\ commit => UNCHANGED device_name
           /\ ~(step2_post \/ commit) =>
                 UNCHANGED <<device_name, configFile, marker>>]_vars

C16_Witness ==
    /\ req.op = "setup_step3"
    /\ Step3WellFormed(req) /\ ~Commits(req)
    /\ resp.template = "setup_step2.html"
    /\ device_name.set
    /\ configFile.exists /\ configFile = initialFile

\* The file is a config file with mode 600 whose agents.defaults.provider
\* has an entry with an API key under providers.
HoldsActiveCredentials(file) ==
    /\ file.exists /\ file.parses /\ file.mode = "600"
    /\ file.doc.has_agents /\ file.doc.has_providers
    /\ file.doc.defaults.provider \in DOMAIN file.doc.providers
    /\ ~Blank(file.doc.providers[file.doc.defaults.provider].api_key)

\* C17: the /setup/3 commit writes the config file and sets its mode to 600,
\* then enables and starts the service, then creates the marker.  So the
\* marker appears only after both service calls returned, a commit cut short
\* by a failing service call leaves the written file without creating the
\* marker, and in every state where the marker is present the config file
\* exists and holds credentials for agents.defaults.provider.
C17_MarkerImpliesConfig ==
    [][/\ marker' => HoldsActiveCredentials(configFile')
       /\ (~marker /\ marker') =>
             /\ Len(calls') >= 2
             /\ SubSeq(calls', Len(calls') - 1, Len(calls'))
                   = <<"systemctl enable", "systemctl start">>
             /\ ~Raised(req'.enable) /\ ~Raised(req'.start)
       /\ (req'.op = "setup_step3" /\ (Raised(req'.enable) \/ Raised(req'.start))) =>
             /\ marker' = marker
             /\ configFile'.exists /\ configFile'.mode = "600"]_vars

C17_Witness ==
    /\ marker
    /\ committed.cut
    /\ req.op = "setup_step3"
    /\ HoldsActiveCredentials(configFile)

\* The config file holds the entry thread t set: its provider's key with the
\* API key it submitted.
Kept(t) ==
    LET ck == SUPPORTED_PROVIDERS[threads[t].provider].config_key
    IN  /\ ck \in DOMAIN configFile.doc.providers
        /\ configFile.doc.providers[ck].api_key = threads[t].api_key

\* Thread t has written the config file.
HasWritten(t) ==
    \/ threads[t].pc \in {"written", "enabled", "started", "done"}
    \/ threads[t].exception = "OSError"

\* C18: nothing guards the read-modify-write of the config file.  When two
\* successful commits for different providers have both ended and the file
\* is completely written, an entry of one of them is missing exactly when
\* one thread wrote the file between the other's read and the other's write
\* (a lost update); and every completely written file names under
\* agents.defaults.provider a key that providers holds with an API key.
C18_LostUpdate ==
    /\ (configFile.parses /\ \E t \in Threads : HasWritten(t)) =>
          /\ configFile.doc.has_agents
          /\ configFile.doc.defaults.provider \in DOMAIN configFile.doc.providers
          /\ ~Blank(configFile.doc.providers[configFile.doc.defaults.provider].api_key)
    /\ (/\ \A t \in Threads : threads[t].pc = "done"
        /\ threads["t1"].provider # threads["t2"].provider
        /\ configFile.parses) =>
          ((\E t \in Threads : ~Kept(t)) <=> (\E t \in Threads : threads[t].stale))

C18_Witness ==
    /\ \A t \in Threads : threads[t].pc = "done"
    /\ threads["t1"].provider # threads["t2"].provider
    /\ ~initialFile.exists
    /\ configFile.parses
    /\ Cardinality(DOMAIN configFile.doc.providers) = 1
    /\ configFile.doc.defaults.provider \in DOMAIN configFile.doc.providers
    /\ \E t \in Threads : ~Kept(t)

====
